---- MODULE Spec2Model ----
(***************************************************************************)
(* State-machine model of inventory_app.py: the SQLite tables (inventory,  *)
(* invoices, users, logs), the widgets whose contents the handlers read    *)
(* back (tree, recycle_tree, user_tree, low_stock_list, summary_label) and *)
(* one action per button handler.                                          *)
(*                                                                         *)
(* Text is a sequence of one-character strings, so that str.strip, int(),  *)
(* float() and str() are modelled by what they do.  A price is a number of *)
(* tenths (25 stands for the float 2.5); the model covers floats with at   *)
(* most one fractional digit.                                              *)
(***************************************************************************)
EXTENDS Integers, Sequences, FiniteSets, TLC

VARIABLES
    inventory,      \* rows of table inventory as this connection sees them, in rowid order
    invoices,       \* rows of table invoices
    users,          \* rows of table users
    logs,           \* rows of table logs
    nextId,         \* sqlite_sequence: next AUTOINCREMENT id of inventory
    nextInvoiceId,  \* sqlite_sequence: next AUTOINCREMENT id of invoices
    committed,      \* the database file: the tables as of the last conn.commit()
    username,       \* self.username ("" while the login window is shown)
    role,           \* self.role ("" while the login window is shown)
    tree,           \* self.tree: rows of the inventory Treeview
    low_stock_list, \* self.low_stock_list: entries of the Listbox
    summary_label,  \* self.summary_label: the three totals it shows
    recycle_tree,   \* self.recycle_tree: rows of the recycle-bin Treeview
    user_tree,      \* self.user_tree: rows of the user Treeview
    messagebox,     \* title of the modal dialog on the screen ("" for none)
    pc              \* position inside a handler: Idle, or what is left after its first commit

vars == <<inventory, invoices, users, logs, nextId, nextInvoiceId, committed,
          username, role, tree, low_stock_list, summary_label, recycle_tree,
          user_tree, messagebox, pc>>

tables == <<inventory, invoices, users, logs, nextId, nextInvoiceId>>
widgets == <<tree, low_stock_list, summary_label, recycle_tree, user_tree>>

----------------------------------------------------------------------------
(* Bounds *)

\* inventory rows ever inserted (caps the AUTOINCREMENT counter)
MaxId == 2
\* invoice rows ever inserted
MaxInvoiceId == 1
\* rows of table logs (handlers that log are disabled when the table is full)
MaxLogs == 2
\* datetime.now() reads 0..MaxTime, in seconds
MaxTime == 1
\* entries of the low-stock Listbox (a refresh that would leave more is disabled)
MaxLowStock == 2

----------------------------------------------------------------------------
(* Text *)

NULL == <<>>
None == [kind |-> "None"]
EMPTY == <<>>

ADMIN == <<"a", "d", "m", "i", "n">>
BOB == <<"b", "o", "b">>

Digits == <<"0", "1", "2", "3", "4", "5", "6", "7", "8", "9">>
IsDigit(c) == \E d \in 1..10 : Digits[d] = c
DigitVal(c) == (CHOOSE d \in 1..10 : Digits[d] = c) - 1

\* the same method, had it removed nothing
strip_Nothing(s) == s

RECURSIVE lstrip(_)
lstrip(s) == IF s # <<>> /\ Head(s) = " " THEN lstrip(Tail(s)) ELSE s

RECURSIVE rstrip(_)
rstrip(s) ==
    IF s # <<>> /\ s[Len(s)] = " " THEN rstrip(SubSeq(s, 1, Len(s) - 1)) ELSE s

\* str.strip()
strip(s) == rstrip(lstrip(s))

\* str.lower(), over the letters the model uses
LowerChar(c) == CASE c = "A" -> "a" [] c = "B" -> "b" [] OTHER -> c
lower(s) == [i \in 1..Len(s) |-> LowerChar(s[i])]

\* SQL: hay LIKE '%needle%'
Contains(hay, needle) ==
    \E i \in 0..(Len(hay) - Len(needle)) :
        \A j \in 1..Len(needle) : hay[i + j] = needle[j]

RECURSIVE NatStr(_)
NatStr(n) ==
    IF n < 10 THEN <<Digits[n + 1]>>
    ELSE NatStr(n \div 10) \o <<Digits[(n % 10) + 1]>>

\* str(int)
IntStr(n) == IF n < 0 THEN <<"-">> \o NatStr(-n) ELSE NatStr(n)

\* str(float), the price p given in tenths
FloatStr(p) ==
    LET a == IF p < 0 THEN -p ELSE p
    IN  (IF p < 0 THEN <<"-">> ELSE <<>>)
            \o NatStr(a \div 10) \o <<".">> \o <<Digits[(a % 10) + 1]>>

RECURSIVE DigitsVal(_)
DigitsVal(s) ==
    IF s = <<>> THEN 0
    ELSE 10 * DigitsVal(SubSeq(s, 1, Len(s) - 1)) + DigitVal(s[Len(s)])

AllDigits(s) == \A i \in 1..Len(s) : IsDigit(s[i])

Unsigned(s) == IF s # <<>> /\ Head(s) \in {"-", "+"} THEN Tail(s) ELSE s
Sign(s) == IF s # <<>> /\ Head(s) = "-" THEN -1 ELSE 1

\* int(text): [ok, val]; ok = FALSE is ValueError
ParseInt(s) ==
    LET t == strip(s)
        u == Unsigned(t)
    IN  IF u # <<>> /\ AllDigits(u)
        THEN [ok |-> TRUE, val |-> Sign(t) * DigitsVal(u)]
        ELSE [ok |-> FALSE, val |-> 0]

\* float(text), in tenths: [ok, val]; ok = FALSE is ValueError
ParseFloat(s) ==
    LET t == strip(s)
        u == Unsigned(t)
        dots == {i \in 1..Len(u) : u[i] = "."}
        dot == IF dots = {} THEN Len(u) + 1 ELSE CHOOSE i \in dots : TRUE
        whole == SubSeq(u, 1, dot - 1)
        frac == SubSeq(u, dot + 1, Len(u))
    IN  IF /\ Cardinality(dots) <= 1
           /\ AllDigits(whole) /\ AllDigits(frac)
           /\ Len(whole) + Len(frac) > 0
           /\ Len(frac) <= 1
        THEN [ok |-> TRUE,
              val |-> Sign(t) * (10 * DigitsVal(whole) + DigitsVal(frac))]
        ELSE [ok |-> FALSE, val |-> 0]

----------------------------------------------------------------------------
(* Tables *)

\* the same row, had the deleted column defaulted to 1
NewItem_Deleted(id, name, qty, price) ==
    [id |-> id, item_name |-> name, quantity |-> qty, price |-> price,
     deleted |-> TRUE, deleted_at |-> NULL]

\* INSERT INTO inventory (item_name, quantity, price): deleted DEFAULT 0, deleted_at NULL
NewItem(id, name, qty, price) ==
    [id |-> id, item_name |-> name, quantity |-> qty, price |-> price,
     deleted |-> FALSE, deleted_at |-> NULL]

\* INSERT INTO invoices (supplier_name, invoice_number, date)
NewInvoice(id, name, number, date) ==
    [id |-> id, supplier_name |-> name, invoice_number |-> number, date |-> date,
     deleted |-> FALSE, deleted_at |-> NULL]

\* hashlib.sha256(password.encode()).hexdigest()
sha256(password) == <<"sha256", password>>

NewUser(name, password, r) ==
    [username |-> name, password |-> sha256(password), role |-> r]

IsActive(r) == ~r.deleted
IsDeleted(r) == r.deleted

\* SELECT ... FROM inventory WHERE deleted = 0
SelectActive(inv) == SelectSeq(inv, IsActive)

\* SELECT ... FROM inventory WHERE deleted = 1
SelectDeleted(inv) == SelectSeq(inv, IsDeleted)

\* the columns item_name, quantity, price of a row
Triple(r) == <<r.item_name, r.quantity, r.price>>
Triples(rows) == [i \in 1..Len(rows) |-> Triple(rows[i])]

Range(s) == {s[i] : i \in 1..Len(s)}

----------------------------------------------------------------------------
(* Widgets *)

\* quantity below which load_inventory lists an item as low stock
LowStockThreshold == 5

\* f"{item_name} - Qty: {quantity}"
LowStockEntry(r) == <<r.item_name, r.quantity>>

RECURSIVE Totals(_)
\* the counters load_inventory accumulates over the rows it fetched
Totals(rows) ==
    IF rows = <<>>
    THEN [item_count |-> 0, total_quantity |-> 0, total_value |-> 0]
    ELSE LET t == Totals(SubSeq(rows, 1, Len(rows) - 1))
             r == rows[Len(rows)]
         IN  [item_count |-> t.item_count + 1,
              total_quantity |-> t.total_quantity + r.quantity,
              total_value |-> t.total_value + r.quantity * r.price]

IsLow(r) == r.quantity < LowStockThreshold

\* the same query without its WHERE deleted = 0
LoadQuery_AllRows(inv) == inv

\* the rows load_inventory reads: SELECT item_name, quantity, price FROM inventory WHERE deleted = 0
LoadQuery(inv) == SelectActive(inv)

\* load_inventory, reading the table inv
load_inventory(inv) ==
    LET rows == LoadQuery(inv)
        low == SelectSeq(rows, IsLow)
        \* the Listbox is cleared inside the loop over the Treeview's old rows
        kept == IF tree = <<>> THEN low_stock_list ELSE <<>>
    IN  /\ Len(kept) + Len(low) <= MaxLowStock
        /\ tree' = Triples(rows)
        /\ low_stock_list' = kept \o [i \in 1..Len(low) |-> LowStockEntry(low[i])]
        /\ summary_label' = Totals(rows)

\* load_recycle_bin, reading the table inv
load_recycle_bin(inv) ==
    LET rows == SelectDeleted(inv)
    IN  recycle_tree' =
            [i \in 1..Len(rows) |-> <<rows[i].item_name, rows[i].quantity,
                                      rows[i].price, rows[i].deleted_at>>]

\* load_users, reading the table us
load_users(us) ==
    user_tree' = [i \in 1..Len(us) |-> <<us[i].username, us[i].role>>]

\* the widget refreshes a handler ends with
Refresh(kind, inv, us) ==
    CASE kind = "load_inventory" ->
            load_inventory(inv) /\ UNCHANGED <<recycle_tree, user_tree>>
      [] kind = "load_recycle_bin" ->
            load_recycle_bin(inv)
                /\ UNCHANGED <<tree, low_stock_list, summary_label, user_tree>>
      [] kind = "load_recycle_bin, load_inventory" ->
            load_recycle_bin(inv) /\ load_inventory(inv) /\ UNCHANGED user_tree
      [] kind = "load_users" ->
            load_users(us)
                /\ UNCHANGED <<tree, low_stock_list, summary_label, recycle_tree>>
      [] OTHER -> UNCHANGED widgets

----------------------------------------------------------------------------
(* Commits and the audit log *)

Snapshot(inv, invo, us, lg, nid, nivid) ==
    [inventory |-> inv, invoices |-> invo, users |-> us, logs |-> lg,
     nextId |-> nid, nextInvoiceId |-> nivid]

Idle == [at |-> "idle"]

\* the same INSERT, had it replaced the rows of the table
log_action_Replace(lg, user, action) ==
    <<[username |-> user, action |-> action]>>

\* log_action: INSERT INTO logs (username, action, timestamp); the timestamp
\* column, which no handler reads, is left out
log_action(lg, user, action) ==
    Append(lg, [username |-> user, action |-> action])

\* The tail every mutating handler shares, the tables given as the handler's
\* statement left them: conn.commit(); log_action(...), which commits again;
\* the widget refreshes; the closing dialog post ("" for none).
\* g = FALSE takes the handler as one step.  g = TRUE stops after the first
\* conn.commit(), leaving the rest to LogStep.
Complete(inv, invo, us, lg, nid, nivid, action, refresh, post, g) ==
    /\ inventory' = inv
    /\ invoices' = invo
    /\ users' = us
    /\ nextId' = nid
    /\ nextInvoiceId' = nivid
    /\ UNCHANGED <<username, role>>
    /\ IF g
       THEN /\ logs' = lg
            /\ committed' = Snapshot(inv, invo, us, lg, nid, nivid)
            /\ pc' = [at |-> "log_action", action |-> action,
                      refresh |-> refresh, post |-> post]
            /\ UNCHANGED <<widgets, messagebox>>
       ELSE /\ logs' = log_action(lg, username, action)
            /\ committed' = Snapshot(inv, invo, us, logs', nid, nivid)
            /\ Refresh(refresh, inv, us)
            /\ messagebox' = post
            /\ pc' = Idle

\* the rest of a handler stopped after its first commit
LogStep ==
    /\ pc.at = "log_action"
    /\ logs' = log_action(logs, username, pc.action)
    /\ committed' = Snapshot(inventory, invoices, users, logs', nextId, nextInvoiceId)
    /\ Refresh(pc.refresh, inventory, users)
    /\ messagebox' = pc.post
    /\ pc' = Idle
    /\ UNCHANGED <<inventory, invoices, users, nextId, nextInvoiceId,
                   username, role>>

\* a handler that only shows a dialog (box = "": that does nothing)
Return(box) ==
    /\ messagebox' = box
    /\ UNCHANGED <<tables, committed, username, role, widgets, pc>>

\* the main window is open, no handler is running and no dialog holds the input
Ready == pc = Idle /\ username # EMPTY /\ messagebox = ""

\* the user closes the dialog
Dismiss ==
    /\ pc = Idle
    /\ messagebox # ""
    /\ messagebox' = ""
    /\ UNCHANGED <<tables, committed, username, role, widgets, pc>>

\* room in the bounded tables
CanLog == Len(logs) < MaxLogs

----------------------------------------------------------------------------
(* Inputs *)

\* what can be typed into the Item Name entry
ItemNameInputs == {<<" ">>, <<"A", "b">>, <<" ", "b">>}
\* what the Quantity entry (an IntVar) and the Price entry (a DoubleVar, here
\* in tenths) can hold together
Amounts == {<<3, 25>>, <<7, 5>>}
\* what can be typed into the search entry
SearchTerms == {<<"A">>, <<"x">>}
\* what can be typed into the invoice entries
SupplierInputs == {<<"s">>}
InvoiceNumberInputs == {<<"n">>, <<" ">>}
DateInputs == {<<"d">>}
\* what can be typed into the user form and the login window
UsernameInputs == {ADMIN, BOB, <<" ">>}
NewPasswordInputs == {<<"p">>}
PasswordInputs == {ADMIN, <<"p">>}
\* what the role Combobox can hold ("" while nothing is chosen)
RoleInputs == {"viewer", ""}
\* the answers given to the yes/no dialogs; a "no" leaves everything but the
\* dialog on the screen as it was
Answers == {TRUE}

----------------------------------------------------------------------------
(* SQL statements on inventory *)

\* UPDATE inventory SET quantity = ?, price = ? WHERE item_name = ?
UpdateWhereName(inv, name, qty, price) ==
    [i \in 1..Len(inv) |->
        IF inv[i].item_name = name
        THEN [inv[i] EXCEPT !.quantity = qty, !.price = price]
        ELSE inv[i]]

\* UPDATE inventory SET deleted = 1, deleted_at = ? WHERE item_name = ?
SoftDeleteWhereName(inv, name, timestamp) ==
    [i \in 1..Len(inv) |->
        IF inv[i].item_name = name
        THEN [inv[i] EXCEPT !.deleted = TRUE, !.deleted_at = <<timestamp>>]
        ELSE inv[i]]

\* the same statement without deleted_at = NULL
RestoreWhereName_KeepStamp(inv, name) ==
    [i \in 1..Len(inv) |->
        IF inv[i].item_name = name
        THEN [inv[i] EXCEPT !.deleted = FALSE]
        ELSE inv[i]]

\* UPDATE inventory SET deleted = 0, deleted_at = NULL WHERE item_name = ?
RestoreWhereName(inv, name) ==
    [i \in 1..Len(inv) |->
        IF inv[i].item_name = name
        THEN [inv[i] EXCEPT !.deleted = FALSE, !.deleted_at = NULL]
        ELSE inv[i]]

\* DELETE FROM inventory WHERE item_name = ?
DeleteWhereName(inv, name) ==
    LET Keep(r) == r.item_name # name IN SelectSeq(inv, Keep)

\* DELETE FROM users WHERE username = ?
DeleteUserWhere(us, name) ==
    LET Keep(u) == u.username # name IN SelectSeq(us, Keep)

----------------------------------------------------------------------------
(* Inventory tab *)

\* state of the Add, Update and Delete Item buttons: "normal" for an admin
ItemButtonsEnabled == role = "admin"

add_item(raw, qty, price, g) ==
    /\ Ready
    /\ ItemButtonsEnabled
    /\ LET name == strip(raw)
       IN  IF name = EMPTY
           THEN Return("Input Error")
           ELSE /\ nextId <= MaxId
                /\ CanLog
                /\ Complete(Append(inventory, NewItem(nextId, name, qty, price)),
                            invoices, users, logs, nextId + 1, nextInvoiceId,
                            <<"Added item: ", name>>, "load_inventory", "", g)

\* sel: the focused row of self.tree, 0 for none; raw, qty, price: the form
update_item(sel, raw, qty, price, g) ==
    /\ Ready
    /\ ItemButtonsEnabled
    /\ IF sel = 0
       THEN Return("Selection Error")
       ELSE LET values == tree[sel]
                name == strip(raw)
            IN  /\ CanLog
                /\ Complete(UpdateWhereName(inventory, values[1], qty, price),
                            invoices, users, logs, nextId, nextInvoiceId,
                            <<"Updated item: ", name>>, "load_inventory", "", g)

\* timestamp: what datetime.now() gives, in seconds
delete_item(sel, timestamp, g) ==
    /\ Ready
    /\ ItemButtonsEnabled
    /\ IF sel = 0
       THEN Return("Selection Error")
       ELSE LET values == tree[sel]
            IN  /\ CanLog
                /\ Complete(SoftDeleteWhereName(inventory, values[1], timestamp),
                            invoices, users, logs, nextId, nextInvoiceId,
                            <<"Soft deleted item: ", values[1]>>,
                            "load_inventory", "", g)

\* the Refresh and Clear buttons
refresh ==
    /\ Ready
    /\ load_inventory(inventory)
    /\ messagebox' = ""
    /\ UNCHANGED <<tables, committed, username, role, recycle_tree, user_tree, pc>>

----------------------------------------------------------------------------
(* Recycle bin tab: both buttons are enabled for every role *)

restore_deleted_item(sel, g) ==
    /\ Ready
    /\ IF sel = 0
       THEN Return("")
       ELSE LET item_name == recycle_tree[sel][1]
            IN  /\ CanLog
                /\ Complete(RestoreWhereName(inventory, item_name),
                            invoices, users, logs, nextId, nextInvoiceId,
                            <<"Restored item: ", item_name>>,
                            "load_recycle_bin, load_inventory", "", g)

permanently_delete_item(sel, yes, g) ==
    /\ Ready
    /\ IF sel = 0
       THEN Return("")
       ELSE LET item_name == recycle_tree[sel][1]
            IN  IF ~yes
                THEN Return("")
                ELSE /\ CanLog
                     /\ Complete(DeleteWhereName(inventory, item_name),
                                 invoices, users, logs, nextId, nextInvoiceId,
                                 <<"Permanently deleted item: ", item_name>>,
                                 "load_recycle_bin", "", g)

----------------------------------------------------------------------------
(* CSV files.  A file is its header and its data rows, a row its cells; the *)
(* cells hold no delimiter, quote or line break, which csv.writer and       *)
(* csv.reader pass through unchanged.                                       *)

Str(s) == [kind |-> "str", s |-> s]
Num(n) == [kind |-> "num", val |-> n]

\* csv.DictReader skips rows without any cell
DataRows(file) == LET NotBlank(row) == row # <<>> IN SelectSeq(file.rows, NotBlank)

\* row.get(col, default) on a row of csv.DictReader: a column the header lacks
\* gives the default, a column the row is too short for gives None (restval)
Get(file, row, col, default) ==
    LET at == {i \in 1..Len(file.header) : file.header[i] = col}
    IN  IF at = {} THEN default
        ELSE LET i == CHOOSE i \in at : \A j \in at : j <= i
             IN  IF i > Len(row) THEN None ELSE Str(row[i])

\* int(x) and float(x) of a value Get returned: TypeError for None
ToInt(x) ==
    CASE x.kind = "None" -> [ok |-> FALSE, error |-> "TypeError", val |-> 0]
      [] x.kind = "num" -> [ok |-> TRUE, error |-> "", val |-> x.val]
      [] OTHER -> LET r == ParseInt(x.s)
                  IN  [ok |-> r.ok, error |-> IF r.ok THEN "" ELSE "ValueError",
                       val |-> r.val]

ToFloat(x) ==
    CASE x.kind = "None" -> [ok |-> FALSE, error |-> "TypeError", val |-> 0]
      [] x.kind = "num" -> [ok |-> TRUE, error |-> "", val |-> x.val]
      [] OTHER -> LET r == ParseFloat(x.s)
                  IN  [ok |-> r.ok, error |-> IF r.ok THEN "" ELSE "ValueError",
                       val |-> r.val]

\* the body of import_inventory_csv's loop for one row:
\* "insert" with the values, "skip" (continue, or an empty name), or the
\* exception that leaves the handler
InventoryRow(file, row) ==
    LET n == Get(file, row, "Item Name", Str(EMPTY))
        q == ToInt(Get(file, row, "Quantity", Num(0)))
        p == ToFloat(Get(file, row, "Price", Num(0)))
        no == [name |-> EMPTY, quantity |-> 0, price |-> 0]
    IN  IF n.kind = "None" THEN [do |-> "AttributeError"] @@ no
        ELSE IF ~q.ok
             THEN [do |-> IF q.error = "ValueError" THEN "skip" ELSE q.error] @@ no
        ELSE IF ~p.ok
             THEN [do |-> IF p.error = "ValueError" THEN "skip" ELSE p.error] @@ no
        ELSE IF strip(n.s) = EMPTY THEN [do |-> "skip"] @@ no
        ELSE [do |-> "insert", name |-> strip(n.s), quantity |-> q.val,
              price |-> p.val]

RECURSIVE ReadInventory(_, _)
\* the loop over the first k data rows: the rows it inserted, and whether an
\* exception ended it
ReadInventory(file, k) ==
    IF k = 0 THEN [inserted |-> <<>>, aborted |-> FALSE]
    ELSE LET before == ReadInventory(file, k - 1)
             r == InventoryRow(file, DataRows(file)[k])
         IN  IF before.aborted THEN before
             ELSE IF r.do = "insert"
                  THEN [before EXCEPT !.inserted = Append(@, r)]
             ELSE IF r.do = "skip" THEN before
             ELSE [before EXCEPT !.aborted = TRUE]

\* the INSERTs of an import, the ids counted from nid
InsertAll(inv, nid, ins) ==
    inv \o [i \in 1..Len(ins) |->
                NewItem(nid + i - 1, ins[i].name, ins[i].quantity, ins[i].price)]

InventoryHeader == <<"Item Name", "Quantity", "Price">>

\* the same file, had the query no WHERE deleted = 0
ExportFile_AllRows(inv) ==
    [header |-> InventoryHeader,
     rows |-> [i \in 1..Len(inv) |->
                <<inv[i].item_name, IntStr(inv[i].quantity), FloatStr(inv[i].price)>>]]

\* the file export_inventory_csv writes
ExportFile(inv) ==
    LET rows == SelectActive(inv)
    IN  [header |-> InventoryHeader,
         rows |-> [i \in 1..Len(rows) |->
                    <<rows[i].item_name, IntStr(rows[i].quantity),
                      FloatStr(rows[i].price)>>]]

\* the files the user can pick in the file dialog
CsvFiles ==
    { \* a valid row, a row with a non-numeric quantity, a row with a blank name
      [header |-> InventoryHeader,
       rows |-> << <<<<"A", "b">>, <<"3">>, <<"2", ".", "5">>>>,
                   <<<<"b">>, <<"x">>, <<"0", ".", "5">>>>,
                   <<<<" ">>, <<"7">>, <<"0", ".", "5">>>> >>],
      \* no Quantity column
      [header |-> <<"Item Name", "Price">>,
       rows |-> << <<<<"b">>, <<"0", ".", "5">>>> >>],
      \* a valid row, then a row shorter than the header
      [header |-> InventoryHeader,
       rows |-> << <<<<"A", "b">>, <<"7">>, <<"0", ".", "5">>>>,
                   <<<<"b">>>> >>],
      \* other column order, an extra column, padded cells
      [header |-> <<"Price", "Item Name", "Extra", "Quantity">>,
       rows |-> << <<<<"0", ".", "5">>, <<" ", "b">>, <<"z">>, <<" ", "7">>>> >>] }

export_inventory_csv ==
    /\ Ready
    /\ Return("Export Complete")

\* the Import CSV button of the inventory tab is enabled for every role
import_inventory_csv(file, g) ==
    /\ Ready
    /\ LET read == ReadInventory(file, Len(DataRows(file)))
           imported_count == Len(read.inserted)
           nid == nextId + imported_count
           inv == InsertAll(inventory, nextId, read.inserted)
       IN  /\ nid <= MaxId + 1
           /\ IF read.aborted
              THEN \* the exception leaves the handler: the INSERTs stay in the
                   \* open transaction, nothing is committed, logged or refreshed
                   /\ inventory' = inv
                   /\ nextId' = nid
                   /\ messagebox' = ""
                   /\ UNCHANGED <<invoices, users, logs, nextInvoiceId, committed,
                                  username, role, widgets, pc>>
              ELSE /\ CanLog
                   /\ Complete(inv, invoices, users, logs, nid, nextInvoiceId,
                               <<"Imported {} items from CSV", IntStr(imported_count)>>,
                               "load_inventory", "Import Complete", g)

----------------------------------------------------------------------------
(* Invoice tab: both buttons are enabled for every role *)

add_invoice(rawname, rawnumber, rawdate, g) ==
    /\ Ready
    /\ LET name == strip(rawname)
           number == strip(rawnumber)
           date == strip(rawdate)
       IN  IF name = EMPTY \/ number = EMPTY \/ date = EMPTY
           THEN Return("Input Error")
           ELSE /\ nextInvoiceId <= MaxInvoiceId
                /\ CanLog
                /\ Complete(inventory,
                            Append(invoices, NewInvoice(nextInvoiceId, name, number, date)),
                            users, logs, nextId, nextInvoiceId + 1,
                            <<"Added invoice: ", number>>, "load_invoices", "", g)

\* the body of import_invoice_csv's loop for one row
InvoiceRow(file, row) ==
    LET n == Get(file, row, "Supplier Name", Str(EMPTY))
        m == Get(file, row, "Invoice Number", Str(EMPTY))
        d == Get(file, row, "Date", Str(EMPTY))
        no == [name |-> EMPTY, number |-> EMPTY, date |-> EMPTY]
    IN  IF n.kind = "None" \/ m.kind = "None" \/ d.kind = "None"
        THEN [do |-> "AttributeError"] @@ no
        ELSE IF strip(n.s) = EMPTY \/ strip(m.s) = EMPTY \/ strip(d.s) = EMPTY
             THEN [do |-> "skip"] @@ no
        ELSE [do |-> "insert", name |-> strip(n.s), number |-> strip(m.s),
              date |-> strip(d.s)]

RECURSIVE ReadInvoices(_, _)
ReadInvoices(file, k) ==
    IF k = 0 THEN [inserted |-> <<>>, aborted |-> FALSE]
    ELSE LET before == ReadInvoices(file, k - 1)
             r == InvoiceRow(file, DataRows(file)[k])
         IN  IF before.aborted THEN before
             ELSE IF r.do = "insert"
                  THEN [before EXCEPT !.inserted = Append(@, r)]
             ELSE IF r.do = "skip" THEN before
             ELSE [before EXCEPT !.aborted = TRUE]

InvoiceHeader == <<"Supplier Name", "Invoice Number", "Date">>

InvoiceCsvFiles ==
    { \* a valid row and a row with a blank invoice number
      [header |-> InvoiceHeader,
       rows |-> << <<<<"s">>, <<"n">>, <<"d">>>>,
                   <<<<"s">>, <<" ">>, <<"d">>>> >>],
      \* a row shorter than the header
      [header |-> InvoiceHeader,
       rows |-> << <<<<"s">>, <<"n">>>> >>] }

import_invoice_csv(file, g) ==
    /\ Ready
    /\ LET read == ReadInvoices(file, Len(DataRows(file)))
           imported_count == Len(read.inserted)
           nivid == nextInvoiceId + imported_count
           invo == invoices \o
                     [i \in 1..imported_count |->
                        NewInvoice(nextInvoiceId + i - 1, read.inserted[i].name,
                                   read.inserted[i].number, read.inserted[i].date)]
       IN  /\ nivid <= MaxInvoiceId + 1
           /\ IF read.aborted
              THEN /\ invoices' = invo
                   /\ nextInvoiceId' = nivid
                   /\ messagebox' = ""
                   /\ UNCHANGED <<inventory, users, logs, nextId, committed,
                                  username, role, widgets, pc>>
              ELSE /\ CanLog
                   /\ Complete(inventory, invo, users, logs, nextId, nivid,
                               <<"Imported {} invoices from CSV", IntStr(imported_count)>>,
                               "load_invoices", "Import Complete", g)

----------------------------------------------------------------------------
(* User Management and Activity Logs tabs: created for an admin only *)

AdminTabs == role = "admin"

\* the same constraint, never raising
UsernameTaken_Never(us, name) == FALSE

\* username TEXT UNIQUE NOT NULL: the INSERT raises sqlite3.IntegrityError
UsernameTaken(us, name) == \E i \in 1..Len(us) : us[i].username = name

add_user(rawname, rawpassword, r, g) ==
    /\ Ready
    /\ AdminTabs
    /\ LET name == strip(rawname)
           password == strip(rawpassword)
       IN  IF name = EMPTY \/ password = EMPTY \/ r = ""
           THEN Return("Input Error")
           ELSE IF UsernameTaken(users, name)
                THEN Return("Error")
           ELSE /\ CanLog
                /\ Complete(inventory, invoices,
                            Append(users, NewUser(name, password, r)),
                            logs, nextId, nextInvoiceId,
                            <<"Added user: ", name>>, "load_users", "", g)

\* the same check protecting nobody
ProtectedUser_Nobody(name) == FALSE

\* if username == "admin": the user that cannot be deleted
ProtectedUser(name) == name = ADMIN

\* sel: the focused row of self.user_tree, 0 for none
delete_user(sel, yes, g) ==
    /\ Ready
    /\ AdminTabs
    /\ IF sel = 0
       THEN Return("")
       ELSE LET name == user_tree[sel][1]
            IN  IF ProtectedUser(name)
                THEN Return("Protected User")
                ELSE IF ~yes
                     THEN Return("")
                ELSE /\ CanLog
                     /\ Complete(inventory, invoices, DeleteUserWhere(users, name),
                                 logs, nextId, nextInvoiceId,
                                 <<"Deleted user: ", name>>, "load_users",
                                 "", g)

clear_logs(yes, g) ==
    /\ Ready
    /\ AdminTabs
    /\ IF ~yes
       THEN Return("")
       ELSE Complete(inventory, invoices, users, <<>>, nextId, nextInvoiceId,
                     <<"Cleared all activity logs", EMPTY>>, "load_logs",
                     "Logs Cleared", g)

----------------------------------------------------------------------------
(* Search *)

\* SELECT item_name, quantity, price FROM inventory
\*   WHERE deleted = 0 AND lower(item_name) LIKE '%term%'
SearchQuery(inv, term) ==
    LET Match(r) == ~r.deleted /\ Contains(lower(r.item_name), term)
    IN  SelectSeq(inv, Match)

\* usel: the focused row of self.user_tree, 0 for none.  After filling the
\* Treeview the handler goes on with the statements of delete_user; without
\* the User Management tab self.user_tree does not exist and the handler
\* ends there with an AttributeError.
search_items(rawterm, usel, yes) ==
    /\ Ready
    /\ LET term == lower(rawterm)
           shown == Triples(SearchQuery(inventory, term))
           OnlyTree(box) ==
               /\ tree' = shown
               /\ messagebox' = box
               /\ UNCHANGED <<tables, committed, username, role, low_stock_list,
                              summary_label, recycle_tree, user_tree, pc>>
       IN  IF ~AdminTabs \/ usel = 0
           THEN OnlyTree("")
           ELSE LET name == user_tree[usel][1]
                    us == DeleteUserWhere(users, name)
                    action == <<"Deleted user: ", name>>
                IN  IF ProtectedUser(name) THEN OnlyTree("Protected User")
                    ELSE IF ~yes THEN OnlyTree("")
                    ELSE /\ CanLog
                         /\ tree' = shown
                         /\ users' = us
                         /\ messagebox' = ""
                         /\ UNCHANGED <<inventory, invoices, nextId, nextInvoiceId,
                                        username, role, low_stock_list,
                                        summary_label, recycle_tree>>
                         /\ logs' = log_action(logs, username, action)
                         /\ pc' = Idle
                         /\ load_users(us)
                         /\ committed' = Snapshot(inventory, invoices, us, logs',
                                                  nextId, nextInvoiceId)

----------------------------------------------------------------------------
(* Start, login, logout *)

\* the module-level setup: seed the admin user when the table is empty, and
\* re-hash a legacy plain-text admin password
Setup(us) ==
    LET seeded == IF Len(us) = 0 THEN <<NewUser(ADMIN, ADMIN, "admin")>> ELSE us
    IN  [i \in 1..Len(seeded) |->
            IF seeded[i].username = ADMIN /\ seeded[i].password = ADMIN
            THEN [seeded[i] EXCEPT !.password = sha256(ADMIN)]
            ELSE seeded[i]]

\* the login window: no main window, no widgets
NoWindow ==
    /\ username' = EMPTY
    /\ role' = ""
    /\ tree' = <<>>
    /\ low_stock_list' = <<>>
    /\ summary_label' = Totals(<<>>)
    /\ recycle_tree' = <<>>
    /\ user_tree' = <<>>

\* SELECT role FROM users WHERE username = ? AND password = ?
LoginQuery(us, name, password) ==
    LET Match(u) == u.username = name /\ u.password = sha256(password)
    IN  SelectSeq(us, Match)

\* the Login button, then InventoryApp.__init__ building the tabs
attempt_login(name, password) ==
    /\ pc = Idle
    /\ username = EMPTY
    /\ messagebox = ""
    /\ LET result == LoginQuery(users, name, password)
       IN  IF result = <<>>
           THEN Return("Login Failed")
           ELSE /\ CanLog
                /\ logs' = log_action(logs, name, <<"Logged in", EMPTY>>)
                /\ committed' = Snapshot(inventory, invoices, users, logs',
                                         nextId, nextInvoiceId)
                /\ username' = name
                /\ role' = result[1].role
                /\ load_inventory(inventory)
                /\ load_recycle_bin(inventory)
                /\ IF result[1].role = "admin"
                   THEN load_users(users)
                   ELSE user_tree' = <<>>
                /\ messagebox' = ""
                /\ UNCHANGED <<inventory, invoices, users, nextId, nextInvoiceId, pc>>

\* Log Out on the settings tab: back to the login window
logout_user(yes) ==
    /\ Ready
    /\ IF ~yes
       THEN Return("")
       ELSE /\ CanLog
            /\ logs' = log_action(logs, username, <<"Logged out", EMPTY>>)
            /\ committed' = Snapshot(inventory, invoices, users, logs',
                                     nextId, nextInvoiceId)
            /\ NoWindow
            /\ messagebox' = ""
            /\ UNCHANGED <<inventory, invoices, users, nextId, nextInvoiceId, pc>>

\* closing the main window ends the program; it is started again
on_app_close(yes) ==
    /\ Ready
    /\ IF ~yes
       THEN Return("")
       ELSE /\ CanLog
            /\ logs' = log_action(logs, username, <<"Closed application", EMPTY>>)
            /\ users' = Setup(users)
            /\ committed' = Snapshot(inventory, invoices, users', logs',
                                     nextId, nextInvoiceId)
            /\ NoWindow
            /\ messagebox' = ""
            /\ UNCHANGED <<inventory, invoices, nextId, nextInvoiceId, pc>>

\* the process is killed and started again: what was not committed is lost
Crash ==
    /\ inventory' = committed.inventory
    /\ invoices' = committed.invoices
    /\ users' = Setup(committed.users)
    /\ logs' = committed.logs
    /\ nextId' = committed.nextId
    /\ nextInvoiceId' = committed.nextInvoiceId
    /\ committed' = [committed EXCEPT !.users = users']
    /\ NoWindow
    /\ messagebox' = ""
    /\ pc' = Idle

----------------------------------------------------------------------------
(* Specifications *)

\* the database file of a first start: the setup code creates the tables
\* and seeds the admin user
FreshFile == Snapshot(<<>>, <<>>, Setup(<<>>), <<>>, 1, 1)

\* a database file left by an earlier run: admin added the viewer bob, and
\* the process was killed between the two commits of clear_logs (SpecFault
\* reaches it: ViewerFileLeft)
ViewerFile ==
    Snapshot(<<>>, <<>>, Append(Setup(<<>>), NewUser(BOB, <<"p">>, "viewer")),
             <<>>, 1, 1)

\* the program starts on the database file: the login window is shown
Start(file) ==
    /\ inventory = file.inventory
    /\ invoices = file.invoices
    /\ users = Setup(file.users)
    /\ logs = file.logs
    /\ nextId = file.nextId
    /\ nextInvoiceId = file.nextInvoiceId
    /\ committed = [file EXCEPT !.users = Setup(file.users)]
    /\ username = EMPTY
    /\ role = ""
    /\ tree = <<>>
    /\ low_stock_list = <<>>
    /\ summary_label = Totals(<<>>)
    /\ recycle_tree = <<>>
    /\ user_tree = <<>>
    /\ messagebox = ""
    /\ pc = Idle

\* a later database file: admin added an item "Ab", deleted it, added
\* another item "Ab" and the viewer bob, and the process was killed between
\* the two commits of clear_logs (SpecFault reaches it: StockedFileLeft)
StockedFile ==
    Snapshot(<< [NewItem(1, <<"A", "b">>, 3, 25)
                   EXCEPT !.deleted = TRUE, !.deleted_at = <<0>>],
                NewItem(2, <<"A", "b">>, 7, 5) >>,
             <<>>, Append(Setup(<<>>), NewUser(BOB, <<"p">>, "viewer")),
             <<>>, 3, 1)

Init == Start(FreshFile) \/ Start(ViewerFile) \/ Start(StockedFile)

InitFresh == Start(FreshFile)

\* the rows of a Treeview that can have the focus; the buttons are pressed
\* with a row selected (without one a handler changes nothing)
Selection(rows) == 1..Len(rows)

\* the handlers that write to the tables, g telling whether they stop after
\* their first commit
Mutations(g) ==
    \/ \E raw \in ItemNameInputs, a \in Amounts : add_item(raw, a[1], a[2], g)
    \/ \E sel \in Selection(tree), a \in Amounts :
            \* the form holds the name load_selected_item put there
            update_item(sel, tree[sel][1], a[1], a[2], g)
    \/ \E sel \in Selection(tree), t \in 0..MaxTime : delete_item(sel, t, g)
    \/ \E sel \in Selection(recycle_tree) : restore_deleted_item(sel, g)
    \/ \E sel \in Selection(recycle_tree), yes \in Answers :
            permanently_delete_item(sel, yes, g)
    \/ \E file \in CsvFiles : import_inventory_csv(file, g)
    \/ \E n \in SupplierInputs, m \in InvoiceNumberInputs, d \in DateInputs :
            add_invoice(n, m, d, g)
    \/ \E file \in InvoiceCsvFiles : import_invoice_csv(file, g)
    \/ \E n \in UsernameInputs, p \in NewPasswordInputs, r \in RoleInputs :
            add_user(n, p, r, g)
    \/ \E sel \in Selection(user_tree), yes \in Answers : delete_user(sel, yes, g)
    \/ \E yes \in Answers : clear_logs(yes, g)

\* the handlers of the buttons that only show or save what the tables hold
Views ==
    \/ refresh
    \/ export_inventory_csv
    \/ \E term \in SearchTerms, usel \in 0..Len(user_tree), yes \in Answers :
            search_items(term, usel, yes)

\* logging in and out, closing the window, closing a dialog
Session ==
    \/ \E n \in UsernameInputs, p \in PasswordInputs : attempt_login(n, p)
    \/ \E yes \in Answers : logout_user(yes)
    \/ \E yes \in Answers : on_app_close(yes)
    \/ Dismiss

\* every handler is one step; the process can be killed between handlers
Next == Mutations(FALSE) \/ Views \/ Session \/ Crash

Spec == Init /\ [][Next]_vars

\* the writing handlers with every conn.commit() a step of its own; the
\* process can be killed between any two steps
NextFault == Mutations(TRUE) \/ Session \/ LogStep \/ Crash

SpecFault == InitFresh /\ [][NextFault]_vars

\* the database file is ViewerFile
ViewerFileLeft == committed = ViewerFile

\* the database file is StockedFile
StockedFileLeft == committed = StockedFile

----------------------------------------------------------------------------
(* Properties *)

\* the step appended one row to logs, its action starting with prefix
Logged(prefix) ==
    /\ Len(logs') = Len(logs) + 1
    /\ SubSeq(logs', 1, Len(logs)) = logs
    /\ logs'[Len(logs')].action[1] = prefix

\* the argument of the row the step appended to logs
LoggedArg == logs'[Len(logs')].action[2]

\* the step starts and ends in the main window (no login, logout, restart)
InSession == username # EMPTY /\ username' = username

\* C1: while the session role is viewer, no operation changes the
\* inventory, invoices, users or logs tables.
C1_ViewerChangesNothing ==
    [][(InSession /\ role = "viewer")
          => UNCHANGED <<inventory, invoices, users, logs>>]_vars

\* C2: a purge leaves every row that has deleted = FALSE in the table,
\* unchanged, also when a recycle-bin row has the same name.
C2_PurgeKeepsActiveRows ==
    [][Logged("Permanently deleted item: ")
          => \A i \in 1..Len(inventory) :
                IsActive(inventory[i])
                    => \E j \in 1..Len(inventory') : inventory'[j] = inventory[i]]_vars

\* C3: no commit persists a change of the inventory, invoices or users table
\* without the audit entry of the operation.
C3_MutationCommitsWithAudit ==
    [][(\/ committed'.inventory # committed.inventory
        \/ committed'.invoices # committed.invoices
        \/ committed'.users # committed.users)
          => /\ Len(committed'.logs) = Len(committed.logs) + 1
             /\ SubSeq(committed'.logs, 1, Len(committed.logs)) = committed.logs]_vars

\* the ids of the rows of a table
Ids(rows) == {rows[i].id : i \in 1..Len(rows)}

\* C4: whenever an admin can press Delete Item, for every name of an active
\* item, the soft delete of that name followed by the restore of that name
\* leaves the active rows and the recycle-bin rows as they were, and the
\* restored rows have deleted_at cleared.
C4_DeleteThenRestore ==
    \A i \in 1..Len(inventory), t \in 0..MaxTime :
        (Ready /\ ItemButtonsEnabled /\ IsActive(inventory[i]))
            => LET name == inventory[i].item_name
                   after == RestoreWhereName(
                                SoftDeleteWhereName(inventory, name, t), name)
               IN  /\ Ids(SelectActive(after)) = Ids(SelectActive(inventory))
                   /\ Ids(SelectDeleted(after)) = Ids(SelectDeleted(inventory))
                   /\ \A j \in 1..Len(after) :
                         after[j].item_name = name => after[j].deleted_at = NULL

\* the rows of a table that are not in the recycle bin, by position
ActiveIndexes(inv) == {i \in 1..Len(inv) : inv[i].deleted = FALSE}

RECURSIVE QuantityOver(_, _)
\* the sum of quantity over the rows of inv at the positions S
QuantityOver(inv, S) ==
    IF S = {} THEN 0
    ELSE LET i == CHOOSE j \in S : TRUE
         IN  inv[i].quantity + QuantityOver(inv, S \ {i})

RECURSIVE ValueOver(_, _)
\* the sum of quantity * price over the rows of inv at the positions S
ValueOver(inv, S) ==
    IF S = {} THEN 0
    ELSE LET i == CHOOSE j \in S : TRUE
         IN  inv[i].quantity * inv[i].price + ValueOver(inv, S \ {i})

\* item count, total quantity and total value of the rows with deleted = FALSE
ActiveTotals(inv) ==
    [item_count |-> Cardinality(ActiveIndexes(inv)),
     total_quantity |-> QuantityOver(inv, ActiveIndexes(inv)),
     total_value |-> ValueOver(inv, ActiveIndexes(inv))]

\* the step ran load_inventory in the main window: it is the tail of these
\* handlers and part of the login, and nothing else writes the summary label
LoadedInventory ==
    /\ username' # EMPTY
    /\ \/ summary_label' # summary_label
       \/ Logged("Added item: ") \/ Logged("Updated item: ")
       \/ Logged("Soft deleted item: ") \/ Logged("Restored item: ")
       \/ Logged("Imported {} items from CSV") \/ Logged("Logged in")

\* C5: in every reachable store (after any creates, updates, soft deletes,
\* restores, purges and imports) the summary computed by load_inventory is
\* the item count, total quantity and total value of exactly the rows with
\* deleted = FALSE, and every run of load_inventory shows those numbers.
C5_SummaryOverActiveRows ==
    /\ [](Totals(LoadQuery(inventory)) = ActiveTotals(inventory))
    /\ [][LoadedInventory => summary_label' = ActiveTotals(inventory')]_vars

\* an item was soft deleted while another stays active: the summary shown
\* counts the active rows only
C5_Witness ==
    /\ username # EMPTY
    /\ logs # <<>>
    /\ logs[Len(logs)].action[1] = "Soft deleted item: "
    /\ SelectDeleted(inventory) # <<>>
    /\ summary_label.item_count >= 1
    /\ summary_label = ActiveTotals(inventory)

\* C6: the users table holds exactly one row named admin, and the attempt to
\* delete admin ends with the Protected User dialog and the table unchanged.
C6_OneAdmin ==
    /\ [](Cardinality({i \in 1..Len(users) : users[i].username = ADMIN}) = 1)
    /\ [][messagebox' = "Protected User" => users' = users]_vars

\* the deletion of admin was refused while another user exists
C6_Witness == messagebox = "Protected User" /\ Len(users) = 2

\* C7: add_item with a name that is not blank appends one row carrying the
\* trimmed name, with deleted = FALSE and deleted_at NULL, to whatever rows
\* the table holds; the row is among the active rows, shown in the list, and
\* not among the recycle-bin rows.
C7_CreatedIsActive ==
    [][Logged("Added item: ")
          => LET new == inventory'[Len(inventory')]
             IN  /\ inventory' = Append(inventory, new)
                 /\ new.item_name = LoggedArg /\ new.item_name # EMPTY
                 /\ new.deleted = FALSE /\ new.deleted_at = NULL
                 /\ new \in Range(SelectActive(inventory'))
                 /\ new \notin Range(SelectDeleted(inventory'))
                 /\ Triple(new) \in Range(tree')]_vars

\* an item was just added while the recycle bin holds a row of the same name
C7_Witness ==
    /\ logs # <<>>
    /\ logs[Len(logs)].action[1] = "Added item: "
    /\ inventory # <<>>
    /\ IsActive(inventory[Len(inventory)])
    /\ \E i \in 1..Len(inventory) :
          /\ IsDeleted(inventory[i])
          /\ inventory[i].item_name = inventory[Len(inventory)].item_name

\* C8: an import of items appends one audit entry carrying the number of
\* rows it inserted, and the rows it inserted are active.
C8_ImportLogsItsCount ==
    [][(InSession /\ Len(inventory') > Len(inventory) /\ ~Logged("Added item: "))
          => /\ Logged("Imported {} items from CSV")
             /\ LoggedArg = IntStr(Len(inventory') - Len(inventory))
             /\ \A i \in Len(inventory) + 1 .. Len(inventory') :
                   IsActive(inventory'[i])]_vars

\* the row has no cell for the column: the header lacks it, or the row ends
\* before it
LacksField(file, row, col) ==
    \A i \in 1..Len(file.header) : file.header[i] = col => i > Len(row)

\* C9: whenever an import can be started, in whatever file is picked every
\* row that lacks a required field is skipped (it neither ends the import
\* nor is inserted), for items and for invoices; and no import has left
\* rows behind that it did not commit.
C9_MissingFieldSkipped ==
    Ready =>
        /\ \A file \in CsvFiles : \A k \in 1..Len(DataRows(file)) :
              LET row == DataRows(file)[k]
              IN  (\E col \in Range(InventoryHeader) : LacksField(file, row, col))
                      => InventoryRow(file, row).do = "skip"
        /\ \A file \in InvoiceCsvFiles : \A k \in 1..Len(DataRows(file)) :
              LET row == DataRows(file)[k]
              IN  (\E col \in Range(InvoiceHeader) : LacksField(file, row, col))
                      => InvoiceRow(file, row).do = "skip"
        /\ inventory = committed.inventory
        /\ invoices = committed.invoices

\* C10: the file export_inventory_csv writes from any reachable table,
\* imported into an empty table, gives active rows with the names,
\* quantities and prices of the active rows of the source, and nothing of
\* its recycle bin.
C10_ExportImportRoundTrip ==
    LET file == ExportFile(inventory)
        read == ReadInventory(file, Len(DataRows(file)))
        target == InsertAll(<<>>, 1, read.inserted)
    IN  /\ ~read.aborted
        /\ Triples(SelectActive(target)) = Triples(SelectActive(inventory))
        /\ SelectDeleted(target) = <<>>
        /\ Len(target) = Len(SelectActive(inventory))

\* the inventory was exported while it holds an active row and a different
\* row in the recycle bin
C10_Witness ==
    /\ messagebox = "Export Complete"
    /\ \E i, j \in 1..Len(inventory) :
          /\ IsActive(inventory[i])
          /\ IsDeleted(inventory[j])
          /\ Triple(inventory[i]) # Triple(inventory[j])

\* the positions whose row the step changed
ChangedRows == {i \in 1..Len(inventory) : i > Len(inventory') \/ inventory'[i] # inventory[i]}

\* C11: an update changes the quantity and price of at most one row, and
\* that row is an active one: every other row, also one with the same name
\* and one in the recycle bin, stays as it was.
C11_UpdateChangesOneRow ==
    [][Logged("Updated item: ")
          => /\ Len(inventory') = Len(inventory)
             /\ Cardinality(ChangedRows) <= 1
             /\ \A i \in ChangedRows : IsActive(inventory[i])]_vars

\* C12: an update or soft delete appends its audit entry only when an active
\* item has the name, and a purge only when a recycle-bin item has it: with
\* no match no entry is appended.
C12_NoMatchNoAudit ==
    [][/\ (Logged("Updated item: ") \/ Logged("Soft deleted item: "))
            => \E i \in 1..Len(inventory) :
                  IsActive(inventory[i]) /\ inventory[i].item_name = LoggedArg
       /\ Logged("Permanently deleted item: ")
            => \E i \in 1..Len(inventory) :
                  IsDeleted(inventory[i]) /\ inventory[i].item_name = LoggedArg]_vars

\* C13: no two rows of users share a username; the refused add_user (the
\* Error dialog) leaves users and logs unchanged; a successful add_user
\* appends exactly one row, carrying the name of its one audit entry.
C13_UniqueUsernames ==
    /\ [](\A i, j \in 1..Len(users) :
             users[i].username = users[j].username => i = j)
    /\ [][messagebox' = "Error" => UNCHANGED <<users, logs>>]_vars
    /\ [][Logged("Added user: ")
             => /\ Len(users') = Len(users) + 1
                /\ SubSeq(users', 1, Len(users)) = users
                /\ users'[Len(users')].username = LoggedArg]_vars

\* a user was added, and adding the same name again was refused
C13_Witness ==
    /\ messagebox = "Error"
    /\ logs # <<>>
    /\ logs[Len(logs)].action[1] = "Added user: "
    /\ \E i \in 1..Len(users) : users[i].username = logs[Len(logs)].action[2]

\* C14: when clear_logs ends (its Logs Cleared dialog) the log holds exactly
\* one entry, the clear recorded under the session's user; every other step
\* leaves the log as it was or appends one entry to it.
C14_ClearLeavesOneEntry ==
    [][IF messagebox' = "Logs Cleared"
       THEN logs' = <<[username |-> username,
                       action |-> <<"Cleared all activity logs", EMPTY>>]>>
       ELSE \/ logs' = logs
            \/ /\ Len(logs') = Len(logs) + 1
               /\ SubSeq(logs', 1, Len(logs)) = logs]_vars

\* the log, which held entries of this session, was just cleared while the
\* inventory holds a row inserted in this run
C14_Witness ==
    /\ messagebox = "Logs Cleared"
    /\ Len(logs) = 1
    /\ nextId = 2
    /\ Len(inventory) = 1

\* the text has a character that is not a space
NotBlank(s) == \E k \in 1..Len(s) : s[k] # " "

\* C15: a handler that ends with the Input Error dialog changed no table and
\* committed nothing; every item, invoice and user a form added has all its
\* text fields non-blank, so a blank field never got past the validation.
C15_ValidationBeforeMutation ==
    /\ [][messagebox' = "Input Error" => UNCHANGED <<tables, committed>>]_vars
    /\ [][Logged("Added item: ")
             => /\ Len(inventory') = Len(inventory) + 1
                /\ NotBlank(inventory'[Len(inventory')].item_name)]_vars
    /\ [][Logged("Added invoice: ")
             => /\ Len(invoices') = Len(invoices) + 1
                /\ LET new == invoices'[Len(invoices')]
                   IN  /\ NotBlank(new.supplier_name)
                       /\ NotBlank(new.invoice_number)
                       /\ NotBlank(new.date)]_vars
    /\ [][Logged("Added user: ")
             => /\ Len(users') = Len(users) + 1
                /\ LET new == users'[Len(users')]
                   IN  /\ NotBlank(new.username)
                       /\ NotBlank(new.password[2])
                       /\ new.role # ""]_vars

\* a form with a blank field was refused while the tables hold rows
C15_Witness ==
    /\ messagebox = "Input Error"
    /\ inventory # <<>>
    /\ Len(users) = 2

\* C16: every inventory row, as the connection sees it and as the database
\* file holds it, has deleted set if and only if deleted_at is not NULL.
C16_DeletedIffStamped ==
    /\ \A i \in 1..Len(inventory) :
          inventory[i].deleted <=> inventory[i].deleted_at # NULL
    /\ \A i \in 1..Len(committed.inventory) :
          committed.inventory[i].deleted <=> committed.inventory[i].deleted_at # NULL

\* an item was just restored while another item stays in the recycle bin
C16_Witness ==
    /\ logs # <<>>
    /\ logs[Len(logs)].action[1] = "Restored item: "
    /\ \E i, j \in 1..Len(inventory) :
          /\ IsDeleted(inventory[i])
          /\ IsActive(inventory[j])
          /\ inventory[j].item_name = logs[Len(logs)].action[2]

\* C17: a row that is in the recycle bin before and after a step keeps its
\* deleted_at, also when the step is the soft delete of an active item with
\* the same name.
C17_BinnedRowKeepsStamp ==
    [][\A i \in 1..Len(inventory), j \in 1..Len(inventory') :
          (/\ inventory[i].id = inventory'[j].id
           /\ IsDeleted(inventory[i])
           /\ IsDeleted(inventory'[j]))
              => inventory'[j].deleted_at = inventory[i].deleted_at]_vars

\* the step is the tail of a handler of the inventory or recycle bin tab
\* that writes to inventory and then refreshes the list
InventoryHandlerLogged ==
    \/ Logged("Added item: ") \/ Logged("Updated item: ")
    \/ Logged("Soft deleted item: ") \/ Logged("Restored item: ")
    \/ Logged("Imported {} items from CSV")

\* C18: a step that rewrites the inventory list without being one of the
\* writing inventory handlers (a search, a refresh) leaves the inventory,
\* invoices, users and logs tables unchanged.
C18_SearchChangesNoTable ==
    [][(InSession /\ tree' # tree /\ ~InventoryHandlerLogged)
          => UNCHANGED <<inventory, invoices, users, logs>>]_vars

\* the entries of the low-stock list for the table inv: one for each active
\* row with quantity below the threshold, in row order
LowStockOf(inv) ==
    LET Low(r) == r.deleted = FALSE /\ r.quantity < LowStockThreshold
        rows == SelectSeq(inv, Low)
    IN  [i \in 1..Len(rows) |-> <<rows[i].item_name, rows[i].quantity>>]

\* C19: after every run of load_inventory (a step that writes the low-stock
\* list or the summary, or the tail of a writing inventory handler) the
\* low-stock list holds exactly the active items with quantity < 5, each
\* once.
C19_LowStockExact ==
    [][(username' # EMPTY /\ (low_stock_list' # low_stock_list \/ LoadedInventory))
          => low_stock_list' = LowStockOf(inventory')]_vars

====
